---- MODULE Spec2Model ----
(***************************************************************************)
(* Verification model of the neuro_hound triage / dedup / scoring pipeline *)
(* (workspace/skills/neuro_hound).                                         *)
(*                                                                         *)
(* Strings are modelled as sequences of atoms.  An atom is a word or a     *)
(* fixed phrase in one spelling ("bci", "BCI", "clinical trial") or one    *)
(* whitespace character (" ").  str.lower() maps every atom to its         *)
(* lower-case spelling, str.strip() removes leading and trailing           *)
(* whitespace atoms, and a regular expression is modelled by the set of    *)
(* lower-case atoms each of its alternatives matches between word          *)
(* boundaries (all searches in the source use re.IGNORECASE).              *)
(***************************************************************************)
EXTENDS Integers, Sequences, FiniteSets, TLC

(***************************************************************************)
(* Bounds of the model.                                                    *)
(***************************************************************************)
\* atoms of title and summary together, in the regex_score specification
MaxTextLen == 2
\* atoms of a title or url, in the _item_hash specification
MaxStrLen == 2
\* items of one filter_seen / update_history call, in the dedup specification
MaxBatch == 2
\* last day of the calendar, in the dedup specification
MaxDay == 2
\* cap of run_count, in the dedup specification
MaxRunCount == 2

(***************************************************************************)
(* Text primitives.                                                        *)
(***************************************************************************)
\* the whitespace atom
IsSpace(a) == a = " "

\* str.lower() on one atom: the atoms that have an upper-case spelling
LowerAtom(a) ==
    CASE a = "BCI" -> "bci"
      [] a = "Foo" -> "foo"
      [] a = "FOO" -> "foo"
      [] a = "X"   -> "x"
      [] a = "U1"  -> "u1"
      [] a = "First-in-human" -> "first-in-human"
      [] OTHER -> a

\* str.lower()
lower(s) == [i \in DOMAIN s |-> LowerAtom(s[i])]

RECURSIVE lstrip(_)
lstrip(s) == IF s # <<>> /\ IsSpace(Head(s)) THEN lstrip(Tail(s)) ELSE s

RECURSIVE rstrip(_)
rstrip(s) ==
    IF s # <<>> /\ IsSpace(s[Len(s)]) THEN rstrip(SubSeq(s, 1, Len(s) - 1)) ELSE s

\* str.strip()
strip(s) == rstrip(lstrip(s))

\* all sequences over S of length at most n
RECURSIVE SeqsUpTo(_, _)
SeqsUpTo(S, n) ==
    IF n = 0 THEN {<<>>}
    ELSE LET shorter == SeqsUpTo(S, n - 1)
         IN  shorter \cup {Append(s, a) : s \in {t \in shorter : Len(t) = n - 1}, a \in S}

Max2(a, b) == IF a >= b THEN a ELSE b
Min2(a, b) == IF a <= b THEN a ELSE b

(***************************************************************************)
(* tools/scoring.py: scope patterns.  A text is the triple of lines        *)
(* <<title, summary, source>> that f"{title}\n{summary}\n{source}" joins;  *)
(* "." does not match the newline, so a ".*" pattern must match inside one *)
(* line.                                                                   *)
(***************************************************************************)
\* some atom of line ln is (case-insensitively) one of the atoms in S
LineHas(ln, S) == \E i \in DOMAIN ln : LowerAtom(ln[i]) \in S

\* re.search of an alternation of plain words: some line has one of them
TextHas(text, S) == \E k \in DOMAIN text : LineHas(text[k], S)

\* re.search of \bA\b.*\bB\b: on one line, an atom of A followed by one of B
LineHasInOrder(ln, A, B) ==
    \E i, j \in DOMAIN ln : i < j /\ LowerAtom(ln[i]) \in A /\ LowerAtom(ln[j]) \in B

TextHasInOrder(text, A, B) == \E k \in DOMAIN text : LineHasInOrder(text[k], A, B)

\* atoms matched by IN_SCOPE_BROAD
IN_SCOPE_BROAD ==
    {"brain-computer interface", "brain computer interface", "bci", "neuroprosthe",
     "intracortical", "ecog", "seeg", "stereo-eeg", "stereoeeg", "ieeg",
     "intracranial eeg", "microstimulation", "cortical stimulation",
     "neural implant", "implantable", "speech decoding", "handwriting decoding",
     "neural decoder", "spike", "spikes", "spiked", "single-unit", "single unit"}

\* atoms matched by IN_SCOPE_STRICT
IN_SCOPE_STRICT ==
    {"brain-computer interface", "brain computer interface", "bci", "neuroprosthe",
     "ecog", "seeg", "stereo-eeg", "stereoeeg", "ieeg", "intracranial eeg",
     "microelectrode", "microelectrode array", "utah array",
     "implanted", "implantable", "neural implant",
     "single-unit", "single unit", "spike", "spikes", "spiked",
     "intracortical recording", "intracortical array", "intracortical electrode"}

\* atoms matched by OUT_OF_SCOPE_HIGH
OUT_OF_SCOPE_HIGH ==
    {"transcranial magnetic stimulation", "tms", "transcranial direct current",
     "tdcs", "transcranial alternating current", "tacs"}

is_in_scope(title, summary, source) == TextHas(<<title, summary, source>>, IN_SCOPE_BROAD)

is_strictly_in_scope(title, summary, source) ==
    TextHas(<<title, summary, source>>, IN_SCOPE_STRICT)

\* searches title and summary only, not the source
is_out_of_scope(title, summary) == TextHas(<<title, summary>>, OUT_OF_SCOPE_HIGH)

(***************************************************************************)
(* tools/scoring.py: regex_score.                                          *)
(***************************************************************************)
\* weights of HIGH_PATTERNS, in table order
HighWeight == <<10, 10, 10, 9, 8, 8, 7, 6>>

\* atoms holding \bhuman(s)?\b and \bhuman\b ("-" is a word boundary)
HumanOrHumans == {"human", "humans", "first-in-human"}
HumanOnly == {"human", "first-in-human"}

\* re.search(HIGH_PATTERNS[i].pattern, text, IGNORECASE)
HighMatch(i, text) ==
    CASE i = 1 -> TextHas(text, {"first-in-human", "first in human", "fih"})
      [] i = 2 -> TextHas(text, {"pivotal", "pma", "de novo", "denovo"})
      [] i = 3 -> \/ TextHasInOrder(text, {"fda"}, {"ide"})
                  \/ TextHasInOrder(text, {"ide"}, {"fda"})
      [] i = 4 -> \/ TextHasInOrder(text, HumanOrHumans, {"implant", "neural implant"})
                  \/ TextHasInOrder(text, {"implanted"}, HumanOnly)
                  \/ TextHas(text, {"clinical trial"})
      [] i = 5 -> TextHas(text, {"ecog", "seeg", "stereo-eeg", "stereoeeg",
                                 "intracranial eeg", "ieeg"})
      [] i = 6 -> TextHas(text, {"single-unit", "single unit", "spike", "spikes", "spiked"})
      [] i = 7 -> TextHas(text, {"microstimulation", "closed-loop", "closed loop"})
      [] i = 8 -> TextHas(text, {"hermetic", "encapsulation", "coating", "material",
                                 "materials", "biocompatible", "biocompatibility"})

\* ceilings of LOW_PATTERNS, in table order
LowCeiling == <<2, 2>>

\* re.search(LOW_PATTERNS[i].pattern, text, IGNORECASE)
LowMatch(i, text) ==
    CASE i = 1 -> TextHas(text, {"eeg headset", "headband"})
      [] i = 2 -> TextHas(text, {"marketing", "press release", "announces"})

\* for val, pat in HIGH_PATTERNS: if re.search(...): score = max(score, val)
RECURSIVE RatchetUp(_, _, _)
RatchetUp(score, text, i) ==
    IF i > Len(HighWeight) THEN score
    ELSE RatchetUp(IF HighMatch(i, text) THEN Max2(score, HighWeight[i]) ELSE score,
                   text, i + 1)

ClampDown_FirstRuleOnly(score, text, i) ==
    IF LowMatch(1, text) THEN Min2(score, LowCeiling[1]) ELSE score

\* for val, pat in LOW_PATTERNS: if re.search(...): score = min(score, val)
RECURSIVE ClampDown(_, _, _)
ClampDown(score, text, i) ==
    IF i > Len(LowCeiling) THEN score
    ELSE ClampDown(IF LowMatch(i, text) THEN Min2(score, LowCeiling[i]) ELSE score,
                   text, i + 1)

\* the BCI terms that exempt "wearable"
WearableExempt ==
    {"bci", "brain-computer", "brain computer", "brain-computer interface",
     "brain computer interface", "neural interface"}

WearableGate_IgnoresExemption(score, text) ==
    IF TextHas(text, {"wearable"}) THEN Min2(score, 2) ELSE score

\* "wearable" alone suppresses, but not when combined with BCI terms
WearableGate(score, text) ==
    IF TextHas(text, {"wearable"}) /\ ~TextHas(text, WearableExempt)
    THEN Min2(score, 2)
    ELSE score

OosGate_BroadScope(score, title, summary, source) ==
    IF is_out_of_scope(title, summary) /\ score >= 7
       /\ ~is_in_scope(title, summary, source)
    THEN Min2(score, 6)
    ELSE score

\* TMS/tDCS/tACS cap at 6, unless the item is also about implantable BCI
OosGate(score, title, summary, source) ==
    IF is_out_of_scope(title, summary) /\ score >= 7
       /\ ~is_strictly_in_scope(title, summary, source)
    THEN Min2(score, 6)
    ELSE score

TopTierGate_OffByOne(score, title, summary, source) ==
    IF score > 9 /\ ~is_strictly_in_scope(title, summary, source) THEN 6 ELSE score

\* if score >= 9 and not is_strictly_in_scope(...): score = 6
TopTierGate(score, title, summary, source) ==
    IF score >= 9 /\ ~is_strictly_in_scope(title, summary, source) THEN 6 ELSE score

regex_score(title, summary, source) ==
    LET text == <<title, summary, source>>
        s1   == RatchetUp(4, text, 1)
        s2   == ClampDown(s1, text, 1)
        s3   == WearableGate(s2, text)
        s4   == OosGate(s3, title, summary, source)
        s5   == TopTierGate(s4, title, summary, source)
    IN  Max2(1, Min2(10, s5))

(***************************************************************************)
(* tools/dedup.py.  Items are dictionaries; a key that is missing (or      *)
(* None) is modelled by Absent for numbers, "" for labels and <<>> for     *)
(* strings and hashes.                                                     *)
(***************************************************************************)
\* a missing dictionary key / None, for number-valued fields
Absent == -1

RE_EVALUATE_THRESHOLD == 7

\* sha256(f"{title.strip().lower()}|{url.strip().lower()}")[:16]: the digest
\* is modelled by the normalised key itself (no collisions inside the bounds)
NormKey_UrlNotStripped(title, url) == <<lower(strip(title)), lower(url)>>

NormKey(title, url) == <<lower(strip(title)), lower(strip(url))>>

_item_hash(title, url) == NormKey(title, url)

\* a record as a fetcher returns it
RawItem(title, url, summary, source, source_id) ==
    [title |-> title, url |-> url, summary |-> summary, source |-> source,
     source_id |-> source_id,
     regex_score |-> Absent, _hash |-> <<>>,
     _prior_score |-> Absent, _prior_category |-> "", _skipped_reason |-> <<>>,
     llm_score |-> Absent, category |-> "", assessment |-> <<>>,
     llm_score_original |-> Absent, adjusted_by_reviewer |-> FALSE,
     adjustment_reason |-> ""]

\* f"Previously scored {prior.get('score', '?')} on {prior.get('last_seen', '?')}"
SkippedReason(prior) == <<"Previously scored", prior.score, "on", prior.last_seen>>

FilterOne_StrictlyAbove(acc, item, history) ==
    LET h  == _item_hash(item.title, item.url)
        it == [item EXCEPT !._hash = h]
    IN  IF h \notin DOMAIN history
        THEN [acc EXCEPT !.to_score = Append(@, it)]
        ELSE IF history[h].score > RE_EVALUATE_THRESHOLD
        THEN [acc EXCEPT !.to_score =
                 Append(@, [it EXCEPT !._prior_score = history[h].score,
                                      !._prior_category = history[h].category])]
        ELSE [acc EXCEPT !.skipped =
                 Append(@, [it EXCEPT !._skipped_reason = SkippedReason(history[h])])]

FilterOne_ReEvaluatesLow(acc, item, history) ==
    LET h  == _item_hash(item.title, item.url)
        it == [item EXCEPT !._hash = h]
    IN  IF h \notin DOMAIN history
        THEN [acc EXCEPT !.to_score = Append(@, it)]
        ELSE [acc EXCEPT !.to_score =
                 Append(@, [it EXCEPT !._prior_score = history[h].score,
                                      !._prior_category = history[h].category])]

\* one iteration of the loop of filter_seen
FilterOne(acc, item, history) ==
    LET h  == _item_hash(item.title, item.url)
        it == [item EXCEPT !._hash = h]
    IN  IF h \notin DOMAIN history
        THEN [acc EXCEPT !.to_score = Append(@, it)]
        ELSE IF history[h].score >= RE_EVALUATE_THRESHOLD
        THEN [acc EXCEPT !.to_score =
                 Append(@, [it EXCEPT !._prior_score = history[h].score,
                                      !._prior_category = history[h].category])]
        ELSE [acc EXCEPT !.skipped =
                 Append(@, [it EXCEPT !._skipped_reason = SkippedReason(history[h])])]

RECURSIVE FilterLoop(_, _, _)
FilterLoop(acc, items, history) ==
    IF items = <<>> THEN acc
    ELSE FilterLoop(FilterOne(acc, Head(items), history), Tail(items), history)

\* returns (to_score, skipped)
filter_seen(items, history) ==
    FilterLoop([to_score |-> <<>>, skipped |-> <<>>], items, history)

\* item.get("_hash") or _item_hash(item.get("title", ""), item.get("url", ""))
HashOf(item) ==
    IF item._hash # <<>> THEN item._hash ELSE _item_hash(item.title, item.url)

\* item.get("llm_score", item.get("score", 0)): the items carry no "score" key
ScoreOf(item) == IF item.llm_score # Absent THEN item.llm_score ELSE 0

\* item.get("category", "unknown")
CategoryOf(item) == IF item.category # "" THEN item.category ELSE "unknown"

UpsertOne_ResetsFirstSeen(history, item, today) ==
    LET h == HashOf(item)
    IN  [g \in DOMAIN history \cup {h} |->
            IF g # h THEN history[g]
            ELSE IF h \in DOMAIN history
            THEN [history[h] EXCEPT !.score = ScoreOf(item),
                                    !.category = CategoryOf(item),
                                    !.first_seen = today,
                                    !.last_seen = today,
                                    !.run_count = @ + 1]
            ELSE [title |-> item.title, score |-> ScoreOf(item),
                  category |-> CategoryOf(item), first_seen |-> today,
                  last_seen |-> today, run_count |-> 1]]

UpsertOne_NoRunCount(history, item, today) ==
    LET h == HashOf(item)
    IN  [g \in DOMAIN history \cup {h} |->
            IF g # h THEN history[g]
            ELSE IF h \in DOMAIN history
            THEN [history[h] EXCEPT !.score = ScoreOf(item),
                                    !.category = CategoryOf(item),
                                    !.last_seen = today]
            ELSE [title |-> item.title, score |-> ScoreOf(item),
                  category |-> CategoryOf(item), first_seen |-> today,
                  last_seen |-> today, run_count |-> 1]]

\* one iteration of the loop of update_history
UpsertOne(history, item, today) ==
    LET h == HashOf(item)
    IN  [g \in DOMAIN history \cup {h} |->
            IF g # h THEN history[g]
            ELSE IF h \in DOMAIN history
            THEN [history[h] EXCEPT !.score = ScoreOf(item),
                                    !.category = CategoryOf(item),
                                    !.last_seen = today,
                                    !.run_count = @ + 1]
            ELSE [title |-> item.title, score |-> ScoreOf(item),
                  category |-> CategoryOf(item), first_seen |-> today,
                  last_seen |-> today, run_count |-> 1]]

\* the history after update_history(history, scored_items) on day today
RECURSIVE update_history(_, _, _)
update_history(history, scored_items, today) ==
    IF scored_items = <<>> THEN history
    ELSE update_history(UpsertOne(history, Head(scored_items), today),
                        Tail(scored_items), today)

\* the empty history of load_history() when no file exists
EmptyHistory == [h \in {} |-> 0]

(***************************************************************************)
(* State.                                                                  *)
(***************************************************************************)
VARIABLES
    \* regex_score specification: the arguments, and the value returned
    sc_pc, sc_title, sc_summary, sc_source, sc_score,
    \* _item_hash specification: two (title, url) pairs and their digests
    hs_a, hs_b, hs_hashed, hs_ha, hs_hb,
    \* filter_seen specification: the arguments, and the two lists returned
    fs_pc, fs_history, fs_items, fs_to_score, fs_skipped,
    \* update_history specification: the history dictionary, the date, the last call
    dd_history, dd_today, dd_op, dd_items, dd_repeat,
    \* pipeline specification: the graph node to run next, the date of the
    \* run, the persisted history file, and the keys of HoundState
    pc, clock_today, seen_items,
    raw_items, prefiltered_items, scored_items, alerts, themes,
    executive_brief, review_result, meta_actions, errors, _dedup_history,
    \* the items the scoring prompt was sent for in this run, and the
    \* (hash, final score) pairs of the scored list the previous run ended with
    llm_calls, prev_final_scores,
    \* the sources whose fetch printed a "[warn] <source>: <error>" line in this run
    warned,
    \* the source registry (sources.json, and state["_registry"] once loaded)
    _registry,
    \* source registry specification: the registry dictionary, the date, the
    \* last operation with its source_id argument and returned value, the
    \* number of operations so far, and the sources the registry started with
    rg_registry, rg_today, rg_op, rg_arg, rg_counts, rg_ret, rg_steps, rg_start

scoreVars == <<sc_pc, sc_title, sc_summary, sc_source, sc_score>>
hashVars  == <<hs_a, hs_b, hs_hashed, hs_ha, hs_hb>>
filterVars == <<fs_pc, fs_history, fs_items, fs_to_score, fs_skipped>>
dedupVars == <<dd_history, dd_today, dd_op, dd_items, dd_repeat>>
stateVars ==
    <<raw_items, prefiltered_items, scored_items, alerts, themes,
      executive_brief, review_result, meta_actions, errors, _dedup_history>>
pipeVars ==
    <<pc, clock_today, seen_items, stateVars, llm_calls, prev_final_scores, warned,
      _registry>>
regVars == <<rg_registry, rg_today, rg_op, rg_arg, rg_counts, rg_ret, rg_steps, rg_start>>
vars == <<scoreVars, hashVars, filterVars, dedupVars, pipeVars, regVars>>

ScoreIdle ==
    /\ sc_pc = "idle" /\ sc_title = <<>> /\ sc_summary = <<>> /\ sc_source = <<>>
    /\ sc_score = Absent

HashIdle ==
    /\ hs_a = <<>> /\ hs_b = <<>> /\ hs_hashed = FALSE /\ hs_ha = <<>> /\ hs_hb = <<>>

FilterIdle ==
    /\ fs_pc = "idle" /\ fs_history = EmptyHistory /\ fs_items = <<>>
    /\ fs_to_score = <<>> /\ fs_skipped = <<>>

DedupIdle ==
    /\ dd_history = EmptyHistory /\ dd_today = 1 /\ dd_op = "none" /\ dd_items = <<>>
    /\ dd_repeat = FALSE

PipeIdle ==
    /\ pc = "idle" /\ clock_today = 1 /\ seen_items = EmptyHistory
    /\ raw_items = <<>> /\ prefiltered_items = <<>> /\ scored_items = <<>>
    /\ alerts = <<>> /\ themes = <<>> /\ executive_brief = <<>>
    /\ review_result = "" /\ meta_actions = "" /\ errors = <<>>
    /\ _dedup_history = <<>> /\ llm_calls = <<>> /\ prev_final_scores = {}
    /\ warned = <<>> /\ _registry = <<>>

RegIdle ==
    /\ rg_registry = [max_sources |-> 0, last_pruned |-> Absent, sources |-> <<>>]
    /\ rg_today = 1 /\ rg_op = "idle" /\ rg_arg = "" /\ rg_ret = <<>>
    /\ rg_steps = 0 /\ rg_start = <<>> /\ rg_counts = <<>>

(***************************************************************************)
(* Specification SpecScore: regex_score applied to bounded texts.          *)
(***************************************************************************)
\* the words the texts are drawn from: at least one per rule of the tables
ScoreAtoms ==
    {"first-in-human", "pivotal", "fda", "ide", "human", "implant", "implanted",
     "clinical trial", "ecog", "spike", "microstimulation", "closed-loop",
     "materials", "headband", "announces", "wearable", "bci", "BCI",
     "neural interface", "tms", "intracortical", "study"}

\* source names: none, a neutral one, one that holds a scope term
ScoreSources == {<<>>, <<"pubmed">>, <<"bci">>}

InitScore ==
    /\ sc_pc = "input"
    /\ sc_title \in SeqsUpTo(ScoreAtoms, MaxTextLen)
    /\ sc_summary \in SeqsUpTo(ScoreAtoms, MaxTextLen - Len(sc_title))
    /\ sc_source \in ScoreSources
    /\ sc_score = Absent
    /\ HashIdle /\ FilterIdle /\ DedupIdle /\ PipeIdle /\ RegIdle

SC_RegexScore ==
    /\ sc_pc = "input"
    /\ sc_score' = regex_score(sc_title, sc_summary, sc_source)
    /\ sc_pc' = "scored"
    /\ UNCHANGED <<sc_title, sc_summary, sc_source, hashVars, filterVars, dedupVars, pipeVars, regVars>>

NextScore == SC_RegexScore

SpecScore == InitScore /\ [][NextScore]_vars

(***************************************************************************)
(* Specification SpecHash: _item_hash on a pair and on its case and        *)
(* whitespace variants.                                                    *)
(***************************************************************************)
HashTitleAtoms == {"Foo", "foo", " "}
HashUrlAtoms == {"X", "x", " "}

\* the other spellings of an atom
CaseVariants(a) == {b \in HashTitleAtoms \cup HashUrlAtoms :
                       b # a /\ LowerAtom(b) = LowerAtom(a)}

InitHash ==
    /\ \E t \in SeqsUpTo(HashTitleAtoms, MaxStrLen), u \in SeqsUpTo(HashUrlAtoms, MaxStrLen) :
          /\ hs_a = [title |-> t, url |-> u]
          /\ hs_b = [title |-> t, url |-> u]
    /\ hs_hashed = FALSE /\ hs_ha = <<>> /\ hs_hb = <<>>
    /\ ScoreIdle /\ FilterIdle /\ DedupIdle /\ PipeIdle /\ RegIdle

\* the second pair's title or url with the case of one letter group changed
HS_ChangeCase ==
    /\ \/ \E i \in DOMAIN hs_b.title : \E c \in CaseVariants(hs_b.title[i]) :
             hs_b' = [hs_b EXCEPT !.title[i] = c]
       \/ \E i \in DOMAIN hs_b.url : \E c \in CaseVariants(hs_b.url[i]) :
             hs_b' = [hs_b EXCEPT !.url[i] = c]
    /\ hs_hashed' = FALSE /\ hs_ha' = <<>> /\ hs_hb' = <<>>
    /\ UNCHANGED <<hs_a, scoreVars, filterVars, dedupVars, pipeVars, regVars>>

\* ... with a whitespace character added in front or at the end
HS_Pad ==
    /\ \/ /\ Len(hs_b.title) < MaxStrLen
          /\ \/ hs_b' = [hs_b EXCEPT !.title = <<" ">> \o @]
             \/ hs_b' = [hs_b EXCEPT !.title = Append(@, " ")]
       \/ /\ Len(hs_b.url) < MaxStrLen
          /\ \/ hs_b' = [hs_b EXCEPT !.url = <<" ">> \o @]
             \/ hs_b' = [hs_b EXCEPT !.url = Append(@, " ")]
    /\ hs_hashed' = FALSE /\ hs_ha' = <<>> /\ hs_hb' = <<>>
    /\ UNCHANGED <<hs_a, scoreVars, filterVars, dedupVars, pipeVars, regVars>>

\* ... with a leading or trailing whitespace character removed
HS_Unpad ==
    /\ \/ /\ hs_b.title # <<>> /\ IsSpace(Head(hs_b.title))
          /\ hs_b' = [hs_b EXCEPT !.title = Tail(@)]
       \/ /\ hs_b.title # <<>> /\ IsSpace(hs_b.title[Len(hs_b.title)])
          /\ hs_b' = [hs_b EXCEPT !.title = SubSeq(@, 1, Len(@) - 1)]
       \/ /\ hs_b.url # <<>> /\ IsSpace(Head(hs_b.url))
          /\ hs_b' = [hs_b EXCEPT !.url = Tail(@)]
       \/ /\ hs_b.url # <<>> /\ IsSpace(hs_b.url[Len(hs_b.url)])
          /\ hs_b' = [hs_b EXCEPT !.url = SubSeq(@, 1, Len(@) - 1)]
    /\ hs_hashed' = FALSE /\ hs_ha' = <<>> /\ hs_hb' = <<>>
    /\ UNCHANGED <<hs_a, scoreVars, filterVars, dedupVars, pipeVars, regVars>>

HS_Hash ==
    /\ hs_ha' = _item_hash(hs_a.title, hs_a.url)
    /\ hs_hb' = _item_hash(hs_b.title, hs_b.url)
    /\ hs_hashed' = TRUE
    /\ UNCHANGED <<hs_a, hs_b, scoreVars, filterVars, dedupVars, pipeVars, regVars>>

NextHash == HS_ChangeCase \/ HS_Pad \/ HS_Unpad \/ HS_Hash

SpecHash == InitHash /\ [][NextHash]_vars

(***************************************************************************)
(* Claims about regex_score (SpecScore).                                   *)
(***************************************************************************)
ScText == <<sc_title, sc_summary, sc_source>>

\* the largest weight among the matching high-signal rules, at least 4
HighMax(text) ==
    LET W == {4} \cup {HighWeight[i] : i \in {j \in DOMAIN HighWeight : HighMatch(j, text)}}
    IN  CHOOSE w \in W : \A v \in W : v <= w

AnyLowMatch(text) == \E i \in DOMAIN LowCeiling : LowMatch(i, text)

WearableAlone(text) == TextHas(text, {"wearable"}) /\ ~TextHas(text, WearableExempt)

ScStrict == is_strictly_in_scope(sc_title, sc_summary, sc_source)

ScOos == is_out_of_scope(sc_title, sc_summary)

\* the result of the sequence the claim lists: 4, ratchet up, demote to the
\* ceiling 2, cap at 6 (disqualifying modality, no strict scope), force to 6
\* (>= 9, no strict scope), clamp
C8_ClaimedScore ==
    LET m  == HighMax(ScText)
        d  == IF AnyLowMatch(ScText) THEN Min2(m, 2) ELSE m
        g1 == IF ScOos /\ ~ScStrict THEN Min2(d, 6) ELSE d
        g2 == IF g1 >= 9 /\ ~ScStrict THEN 6 ELSE g1
    IN  Max2(1, Min2(10, g2))

\* C8 as stated: regex_score returns the result of that sequence and nothing else
C8_Original == sc_pc = "scored" => sc_score = C8_ClaimedScore

\* C8 (amended): regex_score returns an integer in 1..10 that is 2 when a
\* demotion rule matches or "wearable" appears without a BCI term, and
\* otherwise the largest matching high-signal weight (at least 4), replaced
\* by 6 when it exceeds 6 and the text lacks strict scope while it holds a
\* disqualifying modality or the weight is 9 or 10
C8_RegexScoreSequence ==
    sc_pc = "scored" =>
        /\ sc_score \in 1..10
        /\ sc_score =
              IF AnyLowMatch(ScText) \/ WearableAlone(ScText) THEN 2
              ELSE IF ~ScStrict /\ (ScOos \/ HighMax(ScText) >= 9)
                   THEN Min2(HighMax(ScText), 6)
                   ELSE HighMax(ScText)

\* a strict-scope text with a weight-8 match that "wearable" alone brings to 2
C8_Witness ==
    /\ sc_pc = "scored"
    /\ HighMatch(6, ScText) /\ ScStrict /\ ~AnyLowMatch(ScText)
    /\ WearableAlone(ScText)
    /\ sc_score = 2

\* C9: a text that matches a high-signal rule of weight 9 or 10 and not the
\* strict-scope pattern scores at most 6
C9_ScopeGate ==
    (/\ sc_pc = "scored"
     /\ \E i \in DOMAIN HighWeight : HighWeight[i] >= 9 /\ HighMatch(i, ScText)
     /\ ~ScStrict)
    => sc_score <= 6

\* a weight-9 match without strict scope, forced from 9 to 6
C9_Witness ==
    /\ sc_pc = "scored"
    /\ HighMatch(4, ScText) /\ HighMax(ScText) = 9
    /\ ~ScStrict /\ ~ScOos
    /\ sc_score = 6

\* C10: a text whose title or summary matches a disqualifying modality and
\* that does not match the strict-scope pattern scores at most 6
C10_DisqualifyingCap ==
    (sc_pc = "scored" /\ ScOos /\ ~ScStrict) => sc_score <= 6

\* a disqualifying modality together with a weight-7 match, capped from 7 to 6
C10_Witness ==
    /\ sc_pc = "scored"
    /\ ScOos /\ ~ScStrict
    /\ HighMatch(7, ScText) /\ HighMax(ScText) = 7
    /\ sc_score = 6

\* C11: a text that matches at least one demotion rule scores at most 2,
\* whichever high-signal rules match and whether or not it is in strict
\* scope, and so stays below the alert threshold 9
C11_DemotionCeiling ==
    (sc_pc = "scored" /\ AnyLowMatch(ScText)) => (sc_score <= 2 /\ sc_score < 9)

\* a strict-scope text with a weight-10 match that "announces" brings to 2
C11_Witness ==
    /\ sc_pc = "scored"
    /\ LowMatch(2, ScText) /\ ~LowMatch(1, ScText)
    /\ HighMatch(1, ScText) /\ ScStrict /\ ~TextHas(ScText, {"wearable"})
    /\ sc_score = 2

(***************************************************************************)
(* Claims about _item_hash (SpecHash).                                     *)
(***************************************************************************)
\* C6: two (title, url) pairs that differ only in letter case and in
\* leading/trailing whitespace have the same content hash
C6_HashNormalisationInvariant == hs_hashed => hs_ha = hs_hb

\* hash("Foo ", "X") and hash("foo", "x") have been computed
C6_Witness ==
    /\ hs_hashed
    /\ hs_a = [title |-> <<"Foo", " ">>, url |-> <<"X">>]
    /\ hs_b = [title |-> <<"foo">>, url |-> <<"x">>]
    /\ hs_ha = hs_hb

(***************************************************************************)
(* Specification SpecFilter: filter_seen applied to bounded item lists     *)
(* and histories.                                                          *)
(***************************************************************************)
\* a scored item as score_items leaves it
ScoredItem(title, url, score, category) ==
    [RawItem(title, url, <<>>, <<"pubmed">>, "pubmed")
        EXCEPT !.llm_score = score, !.category = category]

\* fetched items: two spellings of one (title, url) and another title
FSPool ==
    {RawItem(<<"Foo">>, <<"x">>, <<>>, <<"pubmed">>, "pubmed"),
     RawItem(<<"foo", " ">>, <<"X">>, <<>>, <<"pubmed">>, "pubmed"),
     RawItem(<<"bar">>, <<"x">>, <<>>, <<"pubmed">>, "pubmed")}

FSBatches == SeqsUpTo(FSPool, MaxBatch)

\* a history entry as update_history writes it
HistoryEntry(title, score, category, first_seen, last_seen, run_count) ==
    [title |-> title, score |-> score, category |-> category,
     first_seen |-> first_seen, last_seen |-> last_seen, run_count |-> run_count]

\* the entries a hash may have: scores on both sides of the threshold
FSEntries(title) ==
    {HistoryEntry(title, 5, "materials", 1, 1, 1),
     HistoryEntry(title, 6, "methods", 1, 2, 2),
     HistoryEntry(title, 7, "methods", 1, 1, 1),
     HistoryEntry(title, 9, "regulatory", 1, 2, 2)}

\* the histories: any subset of the two hashes, each with any of the entries
FSHistories ==
    LET hFoo == _item_hash(<<"Foo">>, <<"x">>)
        hBar == _item_hash(<<"bar">>, <<"x">>)
    IN  UNION {[D -> FSEntries(<<"Foo">>) \cup FSEntries(<<"bar">>)] :
                  D \in SUBSET {hFoo, hBar}}

InitFilter ==
    /\ fs_pc = "input"
    /\ fs_history \in {H \in FSHistories :
                          \A h \in DOMAIN H : lower(H[h].title) = h[1]}
    /\ fs_items \in FSBatches
    /\ fs_to_score = <<>> /\ fs_skipped = <<>>
    /\ ScoreIdle /\ HashIdle /\ DedupIdle /\ PipeIdle /\ RegIdle

FS_FilterSeen ==
    /\ fs_pc = "input"
    /\ LET r == filter_seen(fs_items, fs_history)
       IN  /\ fs_to_score' = r.to_score
           /\ fs_skipped' = r.skipped
    /\ fs_pc' = "returned"
    /\ UNCHANGED <<fs_history, fs_items, scoreVars, hashVars, dedupVars, pipeVars, regVars>>

NextFilter == FS_FilterSeen

SpecFilter == InitFilter /\ [][NextFilter]_vars

(***************************************************************************)
(* Specification SpecDedup: update_history called again and again on a     *)
(* history that starts empty, over a calendar of MaxDay days.              *)
(*   dd_op      the last operation ("update", "day")                       *)
(*   dd_items   the list the last call was given                           *)
(*   dd_repeat  the last call had the same one-item list as the call right *)
(*              before it, on the same day                                 *)
(***************************************************************************)
\* the items the calls are given: two hashes, scores on both sides of 7
DDPool ==
    {ScoredItem(<<"Foo">>, <<"x">>, 5, "materials"),
     ScoredItem(<<"Foo">>, <<"x">>, 7, "methods"),
     ScoredItem(<<"bar">>, <<"x">>, 5, "materials")}

\* the lists a call may be given
DDBatches == SeqsUpTo(DDPool, MaxBatch)

InitDedup == DedupIdle /\ ScoreIdle /\ HashIdle /\ FilterIdle /\ PipeIdle /\ RegIdle

DD_UpdateHistory ==
    \E items \in DDBatches :
        /\ dd_history' = update_history(dd_history, items, dd_today)
        /\ \A h \in DOMAIN dd_history' : dd_history'[h].run_count <= MaxRunCount
        /\ dd_items' = items
        /\ dd_op' = "update"
        /\ dd_repeat' = (dd_op = "update" /\ Len(items) = 1 /\ dd_items = items)
        /\ UNCHANGED <<dd_today, scoreVars, hashVars, filterVars, pipeVars, regVars>>

\* dt.date.today() moves on
DD_NextDay ==
    /\ dd_today < MaxDay
    /\ dd_today' = dd_today + 1
    /\ dd_op' = "day"
    /\ dd_items' = <<>>
    /\ dd_repeat' = FALSE
    /\ UNCHANGED <<dd_history, scoreVars, hashVars, filterVars, pipeVars, regVars>>

NextDedup == DD_UpdateHistory \/ DD_NextDay

SpecDedup == InitDedup /\ [][NextDedup]_vars

(***************************************************************************)
(* Claims about filter_seen (SpecFilter).                                  *)
(***************************************************************************)
\* an item without the annotations filter_seen adds
Unannotated(it) ==
    [it EXCEPT !._hash = <<>>, !._prior_score = Absent, !._prior_category = "",
               !._skipped_reason = <<>>]

StrictlyIncreasing(f) == \A i, j \in DOMAIN f : i < j => f[i] < f[j]

\* C1: filter_seen puts every input item in exactly one of to_score and
\* skipped, in input order; an item whose hash is not in history, or is
\* stored with a score >= 7, is in to_score (the latter with the prior score
\* and category); an item stored with a score < 7 is in skipped with a
\* reason that carries the prior score and the last-seen date
C1_FilterSeenPartition ==
    fs_pc = "returned" =>
        LET n == Len(fs_items)
            a == Len(fs_to_score)
            b == Len(fs_skipped)
        IN  /\ a + b = n
            /\ \E f \in [1..a -> 1..n], g \in [1..b -> 1..n] :
                  /\ StrictlyIncreasing(f) /\ StrictlyIncreasing(g)
                  /\ {f[j] : j \in 1..a} \cap {g[j] : j \in 1..b} = {}
                  /\ \A j \in 1..a :
                        LET it  == fs_items[f[j]]
                            h   == _item_hash(it.title, it.url)
                            out == fs_to_score[j]
                        IN  /\ Unannotated(out) = Unannotated(it)
                            /\ out._skipped_reason = <<>>
                            /\ \/ /\ h \notin DOMAIN fs_history
                                  /\ out._prior_score = Absent
                               \/ /\ h \in DOMAIN fs_history
                                  /\ fs_history[h].score >= 7
                                  /\ out._prior_score = fs_history[h].score
                                  /\ out._prior_category = fs_history[h].category
                  /\ \A j \in 1..b :
                        LET it  == fs_items[g[j]]
                            h   == _item_hash(it.title, it.url)
                            out == fs_skipped[j]
                        IN  /\ Unannotated(out) = Unannotated(it)
                            /\ h \in DOMAIN fs_history
                            /\ fs_history[h].score < 7
                            /\ Len(out._skipped_reason) = 4
                            /\ out._skipped_reason[2] = fs_history[h].score
                            /\ out._skipped_reason[4] = fs_history[h].last_seen

\* an item stored with score 9 is re-evaluated and one stored with 5 is skipped
C1_Witness ==
    /\ fs_pc = "returned"
    /\ Len(fs_items) = 2
    /\ Len(fs_to_score) = 1 /\ fs_to_score[1]._prior_score = 9
    /\ Len(fs_skipped) = 1
    /\ fs_skipped[1]._skipped_reason = <<"Previously scored", 5, "on", 1>>

(***************************************************************************)
(* Claims about update_history (SpecDedup).                                *)
(***************************************************************************)
\* the positions of the items with hash g
Occ(items, g) == {i \in DOMAIN items : HashOf(items[i]) = g}

LastOf(S) == CHOOSE i \in S : \A j \in S : j <= i

\* update_history took H0 to H1 on the list items: every item, in list
\* order, created its entry (first_seen = last_seen = today, run_count = 1)
\* or overwrote score, category, last_seen and added 1 to run_count
UpsertedEach(H0, H1, items, today) ==
    /\ DOMAIN H1 = DOMAIN H0 \cup {HashOf(items[i]) : i \in DOMAIN items}
    /\ \A g \in DOMAIN H1 :
          LET occ == Occ(items, g)
          IN  IF occ = {} THEN H1[g] = H0[g]
              ELSE LET it == items[LastOf(occ)]
                   IN  IF g \notin DOMAIN H0
                       THEN /\ H1[g].first_seen = today
                            /\ H1[g].last_seen = today
                            /\ H1[g].run_count = 1 + (Cardinality(occ) - 1)
                            /\ H1[g].score = it.llm_score
                            /\ H1[g].category = it.category
                       ELSE H1[g] = [H0[g] EXCEPT !.score = it.llm_score,
                                                  !.category = it.category,
                                                  !.last_seen = today,
                                                  !.run_count = @ + Cardinality(occ)]

\* C4: update_history upserts one entry per scored item: a new hash gets
\* first_seen = last_seen = today and run_count = 1, a known hash gets score,
\* category and last_seen overwritten and run_count + 1 with first_seen kept;
\* other entries are unchanged and none is removed
C4_UpdateHistoryUpsert ==
    [][dd_op' = "update" => UpsertedEach(dd_history, dd_history', dd_items', dd_today)]_vars

\* on day 2 one call updated an entry of day 1 and created another
C4_Witness ==
    /\ dd_op = "update" /\ dd_today = 2 /\ Len(dd_items) = 2
    /\ \E g, k \in DOMAIN dd_history :
          /\ dd_history[g].first_seen = 1 /\ dd_history[g].last_seen = 2
          /\ dd_history[g].run_count = 2 /\ dd_history[g].score = 7
          /\ dd_history[k].first_seen = 2 /\ dd_history[k].run_count = 1

\* C5: a second update_history call with the same single item on the same
\* day adds 1 to the entry's run_count and leaves its score, category,
\* first_seen and last_seen (and every other entry) as the first call left them
C5_SameItemTwice ==
    [][(/\ dd_op = "update" /\ dd_op' = "update"
        /\ Len(dd_items) = 1 /\ dd_items' = dd_items)
       => LET h == HashOf(dd_items[1])
          IN  /\ h \in DOMAIN dd_history
              /\ dd_today' = dd_today
              /\ dd_history' = [dd_history EXCEPT ![h].run_count = @ + 1]]_vars

\* the same one-item list was given twice in a row
C5_Witness ==
    /\ dd_op = "update" /\ dd_repeat
    /\ dd_history[HashOf(dd_items[1])].run_count = 2

(***************************************************************************)
(* tools/sources.py and tools/meta_tools.py: the source registry.  Dates   *)
(* are day numbers (ISO dates compare as their days do); a key a source    *)
(* dictionary may lack (curated, enabled, stats) is <<>> when missing and  *)
(* <<value>> when present.                                                 *)
(***************************************************************************)
\* dates a behaviour can see run up to this day
MaxDate == 33
\* registry operations in one behaviour
MaxOps == 2
\* the "max_sources" value of the registry file
MaxSourcesCap == 3

MAX_SOURCES == 40
\* the default of the cold_days parameter
COLD_DAYS == 30

_empty_stats ==
    [runs |-> 0, total_fetched |-> 0, in_scope_count |-> 0, high_score_count |-> 0,
     last_hit_date |-> Absent, last_run_date |-> Absent]

\* d.get(key, default)
Get(field, default) == IF field = <<>> THEN default ELSE field[1]

SourceEntry(id, curated, enabled, discovered_date, stats) ==
    [id |-> id, curated |-> curated, enabled |-> enabled,
     discovered_date |-> discovered_date, stats |-> stats]

\* s.get("stats", {}).get("last_hit_date")
LastHit(s) == Get(s.stats, _empty_stats).last_hit_date

IsCold_AtCutoff(s, cutoff) == LastHit(s) = Absent \/ LastHit(s) <= cutoff

\* last_hit is None or last_hit < cutoff
IsCold(s, cutoff) == LastHit(s) = Absent \/ LastHit(s) < cutoff

ShouldPrune_IgnoresCurated(s, cutoff) ==
    Get(s.enabled, TRUE) /\ IsCold(s, cutoff)

\* the sources the loop of prune_cold_sources does not skip and disables
ShouldPrune(s, cutoff) ==
    /\ ~Get(s.curated, FALSE)
    /\ Get(s.enabled, TRUE)
    /\ IsCold(s, cutoff)

\* returns the number of sources it disabled
prune_cold_sources(registry, cold_days, today) ==
    LET cutoff == today - cold_days
        hit    == {i \in DOMAIN registry.sources : ShouldPrune(registry.sources[i], cutoff)}
        pruned == Cardinality(hit)
    IN  [registry |->
            [registry EXCEPT
                !.sources = [i \in DOMAIN registry.sources |->
                                IF i \in hit
                                THEN [registry.sources[i] EXCEPT !.enabled = <<FALSE>>]
                                ELSE registry.sources[i]],
                !.last_pruned = IF pruned > 0 THEN today ELSE @],
         ret |-> pruned]

\* the position of the first source with this id, 0 when there is none
FirstWithId(sources, source_id) ==
    LET S == {i \in DOMAIN sources : sources[i].id = source_id}
    IN  IF S = {} THEN 0 ELSE CHOOSE i \in S : \A j \in S : i <= j

update_source_stats_AlwaysHit(registry, source_id, fetched, in_scope, high_score, today) ==
    LET i == FirstWithId(registry.sources, source_id)
    IN  IF i = 0 THEN registry
        ELSE LET st == Get(registry.sources[i].stats, _empty_stats)
             IN  [registry EXCEPT !.sources[i].stats =
                     << [runs |-> st.runs + 1,
                         total_fetched |-> st.total_fetched + fetched,
                         in_scope_count |-> st.in_scope_count + in_scope,
                         high_score_count |-> st.high_score_count + high_score,
                         last_run_date |-> today,
                         last_hit_date |-> today] >>]

update_source_stats(registry, source_id, fetched, in_scope, high_score, today) ==
    LET i == FirstWithId(registry.sources, source_id)
    IN  IF i = 0 THEN registry
        ELSE LET st == Get(registry.sources[i].stats, _empty_stats)
             IN  [registry EXCEPT !.sources[i].stats =
                     << [runs |-> st.runs + 1,
                         total_fetched |-> st.total_fetched + fetched,
                         in_scope_count |-> st.in_scope_count + in_scope,
                         high_score_count |-> st.high_score_count + high_score,
                         last_run_date |-> today,
                         last_hit_date |-> IF in_scope > 0 THEN today
                                           ELSE st.last_hit_date] >>]

\* len([s for s in registry["sources"] if s.get("enabled", True)])
EnabledCount(registry) ==
    Cardinality({i \in DOMAIN registry.sources : Get(registry.sources[i].enabled, TRUE)})

add_discovered_source_NoRecheck(registry, source_id, today) ==
    LET cap == IF registry.max_sources = Absent THEN MAX_SOURCES
               ELSE registry.max_sources
        added(r) ==
            [r EXCEPT !.sources =
                Append(@, SourceEntry(source_id, <<FALSE>>, <<TRUE>>, today,
                                      <<_empty_stats>>))]
    IN  IF FirstWithId(registry.sources, source_id) # 0
        THEN [registry |-> registry, ret |-> FALSE]
        ELSE IF EnabledCount(registry) >= cap
        THEN [registry |-> added(prune_cold_sources(registry, COLD_DAYS, today).registry),
              ret |-> TRUE]
        ELSE [registry |-> added(registry), ret |-> TRUE]

\* returns True if added, False if at cap or already exists
add_discovered_source(registry, source_id, today) ==
    LET cap   == IF registry.max_sources = Absent THEN MAX_SOURCES
                 ELSE registry.max_sources
        added(r) ==
            [r EXCEPT !.sources =
                Append(@, SourceEntry(source_id, <<FALSE>>, <<TRUE>>, today,
                                      <<_empty_stats>>))]
    IN  IF FirstWithId(registry.sources, source_id) # 0
        THEN [registry |-> registry, ret |-> FALSE]
        ELSE IF EnabledCount(registry) >= cap
        THEN LET p == prune_cold_sources(registry, COLD_DAYS, today)
             IN  IF EnabledCount(registry) - p.ret >= cap
                 THEN [registry |-> p.registry, ret |-> FALSE]
                 ELSE [registry |-> added(p.registry), ret |-> TRUE]
        ELSE [registry |-> added(registry), ret |-> TRUE]

\* returns the observation of the tool
tool_flag_cold_source(registry, source_id) ==
    LET i == FirstWithId(registry.sources, source_id)
    IN  IF source_id = "" THEN [registry |-> registry, ret |-> "ERROR: source_id is required."]
        ELSE IF i = 0 THEN [registry |-> registry, ret |-> "not found in registry"]
        ELSE IF Get(registry.sources[i].curated, TRUE)
        THEN [registry |-> registry, ret |-> "curated - NOT auto-disabled"]
        ELSE [registry |-> [registry EXCEPT !.sources[i].enabled = <<FALSE>>],
              ret |-> "disabled"]

(***************************************************************************)
(* Specification Spec: the compiled graph of graph.py, run once a day.     *)
(* The collaborators (the fetchers and the language model) answer          *)
(* nondeterministically from small sets.  _registry is the source registry *)
(* of sources.json: the fetch nodes load it, update the stats of their     *)
(* sources in it, and save_registry writes it back; its stats are counted  *)
(* from the start of the run.  The vocabulary files are never read by      *)
(* triage, dedup or scoring and are not part of the state.                 *)
(***************************************************************************)
\* runs (one per day) of a behaviour
MaxRuns == 2
\* records all fetchers together return in one run
MaxRaw == 2

\* x.get(key, 0) of the sort keys
KeyOf(x, key) == IF x[key] = Absent THEN 0 ELSE x[key]

InsertDesc_BeforeTies(sorted, x, key) ==
    LET k == Cardinality({i \in DOMAIN sorted : KeyOf(sorted[i], key) > KeyOf(x, key)})
    IN  SubSeq(sorted, 1, k) \o <<x>> \o SubSeq(sorted, k + 1, Len(sorted))

\* x put behind the elements of a descending list whose key is >= its own
InsertDesc(sorted, x, key) ==
    LET k == Cardinality({i \in DOMAIN sorted : KeyOf(sorted[i], key) >= KeyOf(x, key)})
    IN  SubSeq(sorted, 1, k) \o <<x>> \o SubSeq(sorted, k + 1, Len(sorted))

\* list.sort(key=lambda x: x.get(key, 0), reverse=True): stable
RECURSIVE sort_desc(_, _)
sort_desc(items, key) ==
    IF items = <<>> THEN <<>>
    ELSE InsertDesc(sort_desc(SubSeq(items, 1, Len(items) - 1), key),
                    items[Len(items)], key)

\* stage 1 of prefilter: keep the in-scope items, with their regex_score
RECURSIVE ScopeStage(_)
ScopeStage(items) ==
    IF items = <<>> THEN <<>>
    ELSE LET it == Head(items)
         IN  (IF is_in_scope(it.title, it.summary, it.source)
              THEN <<[it EXCEPT !.regex_score =
                                   regex_score(it.title, it.summary, it.source)]>>
              ELSE <<>>) \o ScopeStage(Tail(items))

\* prefilter and filter_seen annotate the dictionaries of raw_items in place
Triaged(item, history) ==
    LET r == filter_seen(ScopeStage(<<item>>), history)
    IN  IF r.to_score # <<>> THEN r.to_score[1]
        ELSE IF r.skipped # <<>> THEN r.skipped[1]
        ELSE item

should_score_Always(prefiltered) == "score"

should_score(prefiltered) == IF prefiltered = <<>> THEN "skip" ELSE "score"

\* the answers of the scoring prompt: two parsed results, a call that raises
\* and an answer parse_json rejects
LLMOutcomes ==
    {[ok |-> TRUE, score |-> 5, category |-> "methods", error |-> ""],
     [ok |-> TRUE, score |-> 9, category |-> "implantable_bci", error |-> ""],
     [ok |-> FALSE, score |-> Absent, category |-> "", error |-> "timeout"],
     [ok |-> FALSE, score |-> Absent, category |-> "", error |-> "no JSON"]}

ScoreOne_FallbackDefault(item, out) ==
    IF out.ok
    THEN [item EXCEPT !.llm_score = IF out.score = Absent THEN 4 ELSE out.score,
                      !.category = IF out.category = "" THEN "unknown" ELSE out.category,
                      !.assessment = <<"assessment">>]
    ELSE [item EXCEPT !.llm_score = 4,
                      !.category = "error",
                      !.assessment = <<"Scoring failed: ", out.error>>]

\* the dictionary score_items appends for one item
ScoreOne(item, out) ==
    IF out.ok
    THEN [item EXCEPT !.llm_score = IF out.score = Absent THEN 4 ELSE out.score,
                      !.category = IF out.category = "" THEN "unknown" ELSE out.category,
                      !.assessment = <<"assessment">>]
    ELSE [item EXCEPT !.llm_score = IF item.regex_score = Absent THEN 4
                                    ELSE item.regex_score,
                      !.category = "error",
                      !.assessment = <<"Scoring failed: ", out.error>>]

\* state["errors"].append(f"Score item {i}: {e}") of the failed calls, in order
RECURSIVE ScoreErrors(_, _)
ScoreErrors(outs, i) ==
    IF i > Len(outs) THEN <<>>
    ELSE (IF outs[i].ok THEN <<>> ELSE << <<"Score item", i - 1, outs[i].error>> >>)
         \o ScoreErrors(outs, i + 1)

\* [x for x in scored if x.get("llm_score", 0) >= 9]
AlertsOf(scored) == SelectSeq(scored, LAMBDA x : KeyOf(x, "llm_score") >= 9)

\* alerts holds the dictionaries of the scored list themselves: after the
\* in-place changes that turn before into after, without a new list being
\* built, it holds the changed items at the positions chosen from before
SameDictsAsAlerts(before, after) ==
    LET idx == SelectSeq([j \in DOMAIN before |-> j],
                         LAMBDA j : KeyOf(before[j], "llm_score") >= 9)
    IN  [k \in DOMAIN idx |-> after[idx[k]]]

\* sub in s, on atoms
Contains(s, sub) ==
    \E i \in 0..(Len(s) - Len(sub)) : SubSeq(s, i + 1, i + Len(sub)) = sub

StartsWith(s, a) == s # <<>> /\ Head(s) = a

\* one adjustment of the reviewer: the first item whose title holds the snippet
ApplyAdjustment(scored, adj) ==
    IF adj.title_snippet = <<>> \/ adj.adjusted_score = Absent THEN scored
    ELSE LET hits == {i \in DOMAIN scored :
                         Contains(lower(scored[i].title), lower(adj.title_snippet))}
         IN  IF hits = {} THEN scored
             ELSE LET i == CHOOSE j \in hits : \A k \in hits : j <= k
                  IN  [scored EXCEPT ![i].llm_score_original = scored[i].llm_score,
                                     ![i].llm_score = adj.adjusted_score,
                                     ![i].adjusted_by_reviewer = TRUE,
                                     ![i].adjustment_reason = adj.reason]

RECURSIVE ApplyAdjustments(_, _)
ApplyAdjustments(scored, adjustments) ==
    IF adjustments = <<>> THEN scored
    ELSE ApplyAdjustments(ApplyAdjustment(scored, Head(adjustments)), Tail(adjustments))

\* the first lines of the brief
BriefWritten == <<"# TL;DR">>
NoItemsBrief == <<"_", "No items to report this week.", "_">>
BriefFailed == <<"_", "Brief generation failed: ", "e", "_">>

\* the records the sources hold (titles as safe_text leaves them): the same
\* trial report in PubMed and, in another spelling, in a feed; a second
\* PubMed paper; a trial registry entry; an off-topic web hit
PubmedRecord ==
    RawItem(<<"BCI", "clinical trial">>, <<"u1">>, <<>>, <<"pubmed">>, "pubmed")
PubmedPaper ==
    RawItem(<<"ecog">>, <<"u2">>, <<>>, <<"pubmed">>, "pubmed")
RssRecord ==
    RawItem(<<"bci", "clinical trial">>, <<"U1">>, <<>>, <<"feed">>, "feed")
TrialRecord ==
    RawItem(<<"implantable">>, <<"u4">>, <<>>, <<"ClinicalTrials.gov">>, "clinicaltrials")
TavilyRecord ==
    RawItem(<<"tms">>, <<"u3">>, <<>>, <<"tavily">>, "tavily_wideband")

PubmedResults == {<<>>, <<PubmedRecord>>, <<PubmedPaper>>}
TrialResults == {<<>>, <<TrialRecord>>}
\* a feed can list an entry twice
RssResults == {<<>>, <<RssRecord>>, <<RssRecord, RssRecord>>}
TavilyResults == {<<>>, <<TavilyRecord>>}

\* the score_adjustments lists of the reviewer
Adjustment(snippet, score) ==
    [title_snippet |-> snippet, adjusted_score |-> score, reason |-> "reason"]
\* an element of score_adjustments that is a JSON string, not an object:
\* adj.get raises AttributeError
NotAnObject == [json |-> "string"]
IsObject(adj) == "json" \notin DOMAIN adj
AdjustmentLists ==
    {<<>>, <<Adjustment(<<"BCI">>, 5)>>, <<Adjustment(<<"ecog">>, 9)>>,
     <<NotAnObject>>, <<Adjustment(<<"BCI">>, 5), NotAnObject>>,
     <<Adjustment(<<"ecog">>, 9), NotAnObject>>,
     <<Adjustment(<<"BCI">>, 5), Adjustment(<<"bci">>, 11)>>}

\* the adjustments the loop has applied when it returns or raises: those
\* before the first element that is not an object
Processed(adjustments) ==
    LET bad == {i \in DOMAIN adjustments : ~IsObject(adjustments[i])}
    IN  IF bad = {} THEN adjustments
        ELSE SubSeq(adjustments, 1, (CHOOSE i \in bad : \A j \in bad : i <= j) - 1)

\* load_sources on the first run: the default sources (the PubMed API, an RSS
\* feed, the web search), curated and enabled, with empty stats
DefaultRegistry ==
    [max_sources |-> MAX_SOURCES, last_pruned |-> Absent,
     sources |-> << SourceEntry("pubmed", <<TRUE>>, <<TRUE>>, Absent, <<_empty_stats>>),
                    SourceEntry("feed", <<TRUE>>, <<TRUE>>, Absent, <<_empty_stats>>),
                    SourceEntry("tavily_wideband", <<TRUE>>, <<TRUE>>, Absent,
                                <<_empty_stats>>) >>]

\* sum(1 for it in items if is_in_scope(it.get("title", ""), it.get("summary", "")))
InScopeCount(items) ==
    Cardinality({i \in DOMAIN items : is_in_scope(items[i].title, items[i].summary, <<>>)})

\* run.py: initial_state
InitialState ==
    /\ raw_items = <<>> /\ prefiltered_items = <<>> /\ scored_items = <<>>
    /\ alerts = <<>> /\ themes = <<>> /\ executive_brief = <<>>
    /\ review_result = "" /\ meta_actions = "" /\ errors = <<>>
    /\ _dedup_history = <<>>

otherVars == <<scoreVars, hashVars, filterVars, dedupVars, regVars>>

Init ==
    /\ pc = "fetch_pubmed" /\ clock_today = 1 /\ seen_items = EmptyHistory
    /\ InitialState
    /\ llm_calls = <<>> /\ prev_final_scores = {} /\ warned = <<>>
    /\ _registry = DefaultRegistry
    /\ ScoreIdle /\ HashIdle /\ FilterIdle /\ DedupIdle /\ RegIdle

\* what a fetch node leaves alone
FetchUnchanged ==
    UNCHANGED <<clock_today, seen_items, prefiltered_items, scored_items, alerts,
                themes, executive_brief, review_result, meta_actions,
                _dedup_history, llm_calls, prev_final_scores, otherVars>>

fetch_pubmed ==
    /\ pc = "fetch_pubmed"
    /\ \/ \E items \in PubmedResults :
             /\ Len(raw_items) + Len(items) <= MaxRaw
             /\ raw_items' = raw_items \o items
             /\ _registry' = update_source_stats(_registry, "pubmed", Len(items),
                                                 InScopeCount(items), 0, clock_today)
             /\ UNCHANGED <<errors, warned>>
       \/ /\ errors' = Append(errors, <<"PubMed">>)
          /\ warned' = Append(warned, "PubMed")
          /\ UNCHANGED <<raw_items, _registry>>
    /\ pc' = "fetch_clinicaltrials"
    /\ FetchUnchanged

\* a failed fetch contributes no items and is logged as a named error
fetch_clinicaltrials ==
    /\ pc = "fetch_clinicaltrials"
    /\ \/ \E items \in TrialResults :
             /\ Len(raw_items) + Len(items) <= MaxRaw
             /\ raw_items' = raw_items \o items
             /\ _registry' = update_source_stats(_registry, "clinicaltrials", Len(items),
                                                 InScopeCount(items), 0, clock_today)
             /\ UNCHANGED <<errors, warned>>
       \/ /\ errors' = Append(errors, <<"ClinicalTrials">>)
          /\ warned' = Append(warned, "ClinicalTrials")
          /\ UNCHANGED <<raw_items, _registry>>
    /\ pc' = "fetch_rss"
    /\ FetchUnchanged

\* fetch_rss_sources catches the failure of a feed, prints the warning and
\* returns no items for it; fetch_rss adds nothing to errors
fetch_rss ==
    /\ pc = "fetch_rss"
    /\ \/ \E items \in RssResults :
             /\ Len(raw_items) + Len(items) <= MaxRaw
             /\ raw_items' = raw_items \o items
             /\ _registry' = IF items # <<>>
                             THEN update_source_stats(_registry, "feed", Len(items),
                                                      InScopeCount(items), 0, clock_today)
                             ELSE _registry
             /\ UNCHANGED warned
       \/ /\ warned' = Append(warned, "feed")
          /\ UNCHANGED <<raw_items, _registry>>
    /\ pc' = "fetch_tavily"
    /\ UNCHANGED errors
    /\ FetchUnchanged

fetch_tavily ==
    /\ pc = "fetch_tavily"
    /\ \/ \E items \in TavilyResults :
             /\ Len(raw_items) + Len(items) <= MaxRaw
             /\ raw_items' = raw_items \o items
             /\ _registry' = update_source_stats(_registry, "tavily_wideband", Len(items),
                                                 InScopeCount(items), 0, clock_today)
             /\ UNCHANGED <<errors, warned>>
       \/ /\ errors' = Append(errors, <<"Tavily">>)
          /\ warned' = Append(warned, "Tavily")
          /\ UNCHANGED <<raw_items, _registry>>
    /\ pc' = "save_registry"
    /\ FetchUnchanged

save_registry ==
    /\ pc = "save_registry"
    /\ pc' = "prefilter"
    /\ UNCHANGED <<raw_items, errors, warned, _registry>>
    /\ FetchUnchanged

\* the node, and the conditional edge that follows it
prefilter ==
    /\ pc = "prefilter"
    /\ prefiltered_items' =
          sort_desc(filter_seen(ScopeStage(raw_items), seen_items).to_score, "regex_score")
    /\ raw_items' = [i \in DOMAIN raw_items |-> Triaged(raw_items[i], seen_items)]
    /\ _dedup_history' = <<seen_items>>
    /\ pc' = IF should_score(prefiltered_items') = "skip" THEN "END" ELSE "score_items"
    /\ UNCHANGED <<clock_today, seen_items, scored_items, alerts, themes,
                   executive_brief, review_result, meta_actions, errors,
                   llm_calls, prev_final_scores, warned, _registry, otherVars>>

score_items ==
    /\ pc = "score_items"
    /\ IF prefiltered_items = <<>>
       THEN /\ scored_items' = <<>>
            /\ alerts' = <<>>
            /\ UNCHANGED <<errors, llm_calls>>
       ELSE \E outs \in [DOMAIN prefiltered_items -> LLMOutcomes] :
               /\ scored_items' =
                     sort_desc([i \in DOMAIN prefiltered_items |->
                                   ScoreOne(prefiltered_items[i], outs[i])], "llm_score")
               /\ alerts' = AlertsOf(scored_items')
               /\ errors' = errors \o ScoreErrors(outs, 1)
               /\ llm_calls' = llm_calls \o prefiltered_items
    /\ pc' = "summarize_themes"
    /\ UNCHANGED <<clock_today, seen_items, raw_items, prefiltered_items, themes,
                   executive_brief, review_result, meta_actions, _dedup_history,
                   prev_final_scores, warned, _registry, otherVars>>

summarize_themes ==
    /\ pc = "summarize_themes"
    /\ IF scored_items = <<>>
       THEN themes' = <<>> /\ UNCHANGED errors
       ELSE \/ themes' = <<"theme">> /\ UNCHANGED errors
            \/ themes' = <<>> /\ errors' = Append(errors, <<"Themes">>)
    /\ pc' = "write_brief"
    /\ UNCHANGED <<clock_today, seen_items, raw_items, prefiltered_items,
                   scored_items, alerts, executive_brief, review_result,
                   meta_actions, _dedup_history, llm_calls, prev_final_scores,
                   warned, _registry, otherVars>>

write_brief ==
    /\ pc = "write_brief"
    /\ IF themes = <<>> /\ scored_items = <<>>
       THEN executive_brief' = NoItemsBrief /\ UNCHANGED errors
       ELSE \/ executive_brief' = BriefWritten /\ UNCHANGED errors
            \/ /\ executive_brief' = BriefFailed
               /\ errors' = Append(errors, <<"Brief">>)
    /\ pc' = "review"
    /\ UNCHANGED <<clock_today, seen_items, raw_items, prefiltered_items,
                   scored_items, alerts, themes, review_result, meta_actions,
                   _dedup_history, llm_calls, prev_final_scores, warned, _registry, otherVars>>

\* _run_company_discovery: the entries it can add to the error list
CompanyDiscoveryErrors(scored) ==
    IF \E i \in DOMAIN scored : /\ scored[i].source_id = "tavily_wideband"
                                /\ KeyOf(scored[i], "llm_score") >= 6
    THEN {<<>>, << <<"Company discovery">> >>}
    ELSE {<<>>}

review ==
    /\ pc = "review"
    /\ IF executive_brief = <<>> \/ StartsWith(executive_brief, "_")
       THEN /\ review_result' = "SKIPPED"
            /\ UNCHANGED <<scored_items, alerts, errors, seen_items, _dedup_history>>
       ELSE /\ \/ \E adjustments \in AdjustmentLists :
                     /\ Processed(adjustments) = adjustments
                     /\ scored_items' =
                           sort_desc(ApplyAdjustments(scored_items, adjustments),
                                     "llm_score")
                     /\ alerts' = AlertsOf(scored_items')
                     /\ review_result' = "reviewed"
                     /\ \E cd \in CompanyDiscoveryErrors(scored_items') :
                           errors' = errors \o cd
               \/ \E adjustments \in AdjustmentLists :
                     /\ Processed(adjustments) # adjustments
                     /\ scored_items' =
                           ApplyAdjustments(scored_items, Processed(adjustments))
                     /\ review_result' = "ERROR"
                     /\ alerts' = SameDictsAsAlerts(scored_items, scored_items')
                     /\ \E cd \in CompanyDiscoveryErrors(scored_items') :
                           errors' = Append(errors, <<"Review">>) \o cd
               \/ /\ review_result' = "ERROR"
                  /\ UNCHANGED <<scored_items, alerts>>
                  /\ \E cd \in CompanyDiscoveryErrors(scored_items) :
                        errors' = Append(errors, <<"Review">>) \o cd
            /\ IF _dedup_history # <<>>
               THEN /\ seen_items' =
                          update_history(_dedup_history[1], scored_items', clock_today)
                    /\ _dedup_history' = <<seen_items'>>
               ELSE UNCHANGED <<seen_items, _dedup_history>>
    /\ pc' = "meta_reflect"
    /\ UNCHANGED <<clock_today, raw_items, prefiltered_items, themes,
                   executive_brief, meta_actions, llm_calls, prev_final_scores,
                   warned, _registry, otherVars>>

\* the model call of the ReAct loop is not guarded: its failure ends the run
meta_reflect ==
    /\ pc = "meta_reflect"
    /\ IF scored_items = <<>>
       THEN meta_actions' = "skipped" /\ pc' = "END"
       ELSE \/ meta_actions' = "finished" /\ pc' = "END"
            \/ pc' = "raised" /\ UNCHANGED meta_actions
    /\ UNCHANGED <<clock_today, seen_items, raw_items, prefiltered_items,
                   scored_items, alerts, themes, executive_brief, review_result,
                   errors, _dedup_history, llm_calls, prev_final_scores,
                   warned, _registry, otherVars>>

\* run.py run_phase2: the next day's run starts from initial_state.  The
\* counters of sources.json are cumulative and nothing reads them back, so
\* each run counts them from the registry it loads
run_phase2 ==
    /\ pc \in {"END", "raised"}
    /\ clock_today < MaxRuns
    /\ clock_today' = clock_today + 1
    /\ raw_items' = <<>> /\ prefiltered_items' = <<>> /\ scored_items' = <<>>
    /\ alerts' = <<>> /\ themes' = <<>> /\ executive_brief' = <<>>
    /\ review_result' = "" /\ meta_actions' = "" /\ errors' = <<>>
    /\ _dedup_history' = <<>>
    /\ prev_final_scores' =
          {<<HashOf(scored_items[i]), scored_items[i].llm_score>> : i \in DOMAIN scored_items}
    /\ llm_calls' = <<>> /\ warned' = <<>>
    /\ pc' = "fetch_pubmed"
    /\ _registry' = DefaultRegistry
    /\ UNCHANGED <<seen_items, otherVars>>

Next ==
    \/ fetch_pubmed \/ fetch_clinicaltrials \/ fetch_rss \/ fetch_tavily
    \/ save_registry \/ prefilter \/ score_items \/ summarize_themes
    \/ write_brief \/ review \/ meta_reflect \/ run_phase2

Spec == Init /\ [][Next]_vars

(***************************************************************************)
(* Specification SpecRun: one run of the graph, started on the history     *)
(* file an earlier run (on day 0) left behind.                             *)
(***************************************************************************)
\* the scored lists an earlier run can have ended with: nothing, or the
\* PubMed record with any outcome of the scoring prompt
EarlierScored ==
    {<<>>} \cup {<<ScoreOne(Triaged(PubmedRecord, EmptyHistory), out)>> : out \in LLMOutcomes}

InitRun ==
    /\ pc = "fetch_pubmed" /\ clock_today = 1
    /\ \E scored \in EarlierScored : seen_items = update_history(EmptyHistory, scored, 0)
    /\ InitialState
    /\ llm_calls = <<>> /\ prev_final_scores = {} /\ warned = <<>>
    /\ _registry = DefaultRegistry
    /\ ScoreIdle /\ HashIdle /\ FilterIdle /\ DedupIdle /\ RegIdle

NextRun ==
    \/ fetch_pubmed \/ fetch_clinicaltrials \/ fetch_rss \/ fetch_tavily
    \/ save_registry \/ prefilter \/ score_items \/ summarize_themes
    \/ write_brief \/ review \/ meta_reflect

SpecRun == InitRun /\ [][NextRun]_vars

(***************************************************************************)
(* Claims about the pipeline (Spec, SpecRun).                              *)
(***************************************************************************)
\* the nodes up to and including prefilter
TriageNodes ==
    {"fetch_pubmed", "fetch_clinicaltrials", "fetch_rss", "fetch_tavily",
     "save_registry", "prefilter"}

\* C2: in the run after one that ended with an item in the scored list with
\* final score s, every in-scope record with the same normalised (title, url)
\* is sent to to_score when s >= 7 and is skipped when s < 7
C2_RerunFollowsFinalScore ==
    (clock_today > 1 /\ pc \notin TriageNodes) =>
        \A p \in prev_final_scores : \A i \in DOMAIN raw_items :
            LET r == raw_items[i]
                sent == \E j \in DOMAIN prefiltered_items :
                            prefiltered_items[j]._hash = p[1]
            IN  (is_in_scope(r.title, r.summary, r.source)
                 /\ _item_hash(r.title, r.url) = p[1])
                => IF p[2] >= 7 THEN sent ELSE ~sent

\* C3: the scoring prompt is sent exactly once per item of to_score, never
\* for an out-of-scope item or one whose hash is stored with a score below 7;
\* when to_score is empty no scoring call is made and the run ends after triage
C3_ScoringOnlyForToScore ==
    /\ pc \in TriageNodes \cup {"score_items"} => llm_calls = <<>>
    /\ pc \notin TriageNodes \cup {"score_items"} => llm_calls = prefiltered_items
    /\ \A i \in DOMAIN llm_calls :
          is_in_scope(llm_calls[i].title, llm_calls[i].summary, llm_calls[i].source)
    /\ pc \in {"summarize_themes", "write_brief", "review"} =>
          \A i \in DOMAIN llm_calls :
              LET h == _item_hash(llm_calls[i].title, llm_calls[i].url)
              IN  h \in DOMAIN seen_items => seen_items[h].score >= 7
    /\ (pc \notin TriageNodes /\ prefiltered_items = <<>>) =>
          /\ pc = "END" /\ llm_calls = <<>> /\ scored_items = <<>>
          /\ executive_brief = <<>> /\ review_result = ""

\* scoring ran for a PubMed record while a record stored with a low score was skipped
C3_Witness ==
    /\ pc = "summarize_themes"
    /\ Len(llm_calls) = 1 /\ Len(scored_items) = 1
    /\ llm_calls[1].source_id = "pubmed"
    /\ \E i \in DOMAIN raw_items : raw_items[i]._skipped_reason # <<>>

\* C7: no two items of to_score have the same content hash
C7_NoDuplicateHashes ==
    \A i, j \in DOMAIN prefiltered_items :
        i # j => prefiltered_items[i]._hash # prefiltered_items[j]._hash

\* the fields a fetcher gives a record
SameRecord(a, b) ==
    /\ a.title = b.title /\ a.url = b.url /\ a.summary = b.summary
    /\ a.source = b.source /\ a.source_id = b.source_id

\* the positions of raw that pass the broad scope filter and that the dedup
\* history does not hold with a score below 7
TriageKept(raw, history) ==
    {i \in DOMAIN raw :
        /\ is_in_scope(raw[i].title, raw[i].summary, raw[i].source)
        /\ LET h == _item_hash(raw[i].title, raw[i].url)
           IN  h \in DOMAIN history => history[h].score >= 7}

\* C12: prefilter returns exactly the raw items that pass the broad scope
\* filter and are not skipped by dedup (so every in-scope item with an unseen
\* hash), each with its regex_score, in descending order of regex_score with
\* equal scores in fetch order
C12_TriageOutput ==
    [][pc = "prefilter" =>
        LET K == TriageKept(raw_items, seen_items)
            n == Len(prefiltered_items')
        IN  /\ n = Cardinality(K)
            /\ \E f \in [1..n -> K] :
                  /\ \A i, j \in 1..n : i # j => f[i] # f[j]
                  /\ \A j \in 1..n :
                        LET out == prefiltered_items'[j]
                        IN  /\ SameRecord(out, raw_items[f[j]])
                            /\ out.regex_score =
                                  regex_score(out.title, out.summary, out.source)
                  /\ \A i, j \in 1..n : i < j =>
                        \/ prefiltered_items'[i].regex_score > prefiltered_items'[j].regex_score
                        \/ /\ prefiltered_items'[i].regex_score = prefiltered_items'[j].regex_score
                           /\ f[i] < f[j]]_vars

\* two records with equal regex_score 9 came out in fetch order: the PubMed
\* one (re-evaluated, stored with 9) before the feed's
C12_Witness ==
    /\ pc = "score_items"
    /\ Len(raw_items) = 2 /\ Len(prefiltered_items) = 2
    /\ prefiltered_items[1].source_id = "pubmed" /\ prefiltered_items[2].source_id = "feed"
    /\ prefiltered_items[1].regex_score = 9 /\ prefiltered_items[2].regex_score = 9

\* the nodes that run after score_items has returned, and the end of the run
AfterScoring == {"summarize_themes", "write_brief", "review", "meta_reflect", "END", "raised"}

\* C13: once score_items or review has returned, the alerts are exactly the
\* items of the scored list with llm_score >= 9, also when the reviewer's
\* response failed in processing after some adjustments were applied
C13_AlertsAreHighScores ==
    pc \in AfterScoring =>
        {alerts[i] : i \in DOMAIN alerts} =
            {scored_items[i] : i \in {j \in DOMAIN scored_items :
                                         KeyOf(scored_items[j], "llm_score") >= 9}}

\* C14: score_items returns one scored item per candidate; an item whose
\* scoring call failed has llm_score = its regex_score, category "error" and
\* an assessment that holds the error message, and adds one entry (its
\* position and the message) to errors; the other items carry the score and
\* category of their answer
C14_ScoringFailureIsolated ==
    [][pc = "score_items" =>
        LET n   == Len(prefiltered_items)
            new == SubSeq(errors', Len(errors) + 1, Len(errors'))
        IN  /\ Len(scored_items') = n
            /\ SubSeq(errors', 1, Len(errors)) = errors
            /\ \E f \in [1..n -> 1..n] :
                  /\ \A i, j \in 1..n : i # j => f[i] # f[j]
                  /\ \A j \in 1..n :
                        LET out == scored_items'[j]
                            it  == prefiltered_items[f[j]]
                            mine == {k \in DOMAIN new : new[k][2] = f[j] - 1}
                        IN  /\ SameRecord(out, it) /\ out.regex_score = it.regex_score
                            /\ IF out.category = "error"
                               THEN /\ out.llm_score = it.regex_score
                                    /\ Cardinality(mine) = 1
                                    /\ \A k \in mine :
                                          /\ new[k][1] = "Score item"
                                          /\ Contains(out.assessment, <<new[k][3]>>)
                               ELSE /\ mine = {}
                                    /\ \E a \in LLMOutcomes :
                                          /\ a.ok /\ out.llm_score = a.score
                                          /\ out.category = a.category]_vars

\* of two candidates the call for the paper (regex_score 8) failed and the
\* one for the feed record succeeded with 5
C14_Witness ==
    /\ pc = "summarize_themes"
    /\ Len(scored_items) = 2
    /\ scored_items[1].category = "error" /\ scored_items[1].llm_score = 8
    /\ scored_items[2].category = "methods" /\ scored_items[2].llm_score = 5
    /\ Len(errors) = 1 /\ errors[1][1] = "Score item"

\* C15: a review stage in which the reviewer fails (the call raises, or the
\* response cannot be parsed or processed) leaves every score, the order of
\* the scored list and the alerts as they were, and appends the failure to
\* errors; the run continues
C15_ReviewerFailureIsNoOp ==
    [][(pc = "review" /\ review_result' = "ERROR") =>
          /\ scored_items' = scored_items
          /\ alerts' = alerts
          /\ Len(errors') > Len(errors)
          /\ errors'[Len(errors) + 1] = <<"Review">>
          /\ pc' = "meta_reflect"]_vars

\* C16: a run that scored at least one item ends with the hash of every
\* scored item in the persisted dedup history, with the item's final score
\* and category, also when the brief is missing or failed and when the
\* reviewer failed
C16_ScoredItemsArePersisted ==
    (pc \in {"END", "raised"} /\ scored_items # <<>>) =>
        \A i \in DOMAIN scored_items :
            LET h == HashOf(scored_items[i])
            IN  /\ h \in DOMAIN seen_items
                /\ seen_items[h].score = ScoreOf(scored_items[i])
                /\ seen_items[h].category = CategoryOf(scored_items[i])

\* C17: whichever collaborators fail during a run (a source fetch, a scoring
\* call, theme or brief generation, the reviewer, the meta-reflection call),
\* no failure aborts the run: no node lets the exception leave the graph, and
\* a run that ends after a failed reviewer, brief or theme call holds the
\* entry of that failure in errors
C17_NoFailureAbortsRun ==
    /\ pc # "raised"
    /\ pc = "END" =>
          /\ review_result = "ERROR" => \E k \in DOMAIN errors : errors[k] = <<"Review">>
          /\ executive_brief = BriefFailed => \E k \in DOMAIN errors : errors[k] = <<"Brief">>

\* the fetch nodes
FetchNodes == {"fetch_pubmed", "fetch_clinicaltrials", "fetch_rss", "fetch_tavily"}

\* C18: a fetch node whose source fails adds no item to raw_items and keeps
\* the items of the other sources, hands on to the next node, and appends to
\* errors an entry that names the failed source - for PubMed, for an RSS
\* feed and for the web search alike
C18_FailedSourceIsNamed ==
    [][(pc \in FetchNodes /\ warned' # warned) =>
          /\ raw_items' = raw_items
          /\ pc' \in (FetchNodes \cup {"save_registry"}) \ {pc}
          /\ Len(errors') = Len(errors) + 1
          /\ errors'[Len(errors')][1] = warned'[Len(warned')]]_vars

(***************************************************************************)
(* Specification SpecRegistry: the automated operations on a registry      *)
(* that holds a curated source, a discovered one and, in some files, a     *)
(* hand-written entry without the curated, enabled and stats keys.         *)
(***************************************************************************)
\* an early date, and the dates 30 days and more after it
Dates == {1} \cup ((COLD_DAYS + 1)..MaxDate)

StatsWithHit(d) == << [_empty_stats EXCEPT !.runs = 1, !.total_fetched = 1,
                                          !.in_scope_count = 1,
                                          !.last_hit_date = d, !.last_run_date = d] >>
StatsNoHit == <<_empty_stats>>

StartSources ==
    LET cur  == {SourceEntry("pubmed", <<TRUE>>, <<TRUE>>, Absent, st) :
                    st \in {StatsNoHit, StatsWithHit(1)}}
        disc == {SourceEntry("blog", <<FALSE>>, en, 1, st) :
                    en \in {<<TRUE>>, <<FALSE>>},
                    st \in {StatsNoHit, StatsWithHit(1)}}
        hand == SourceEntry("legacy", <<>>, <<>>, Absent, <<>>)
    IN  {<<c, d>> : c \in cur, d \in disc} \cup {<<c, d, hand>> : c \in cur, d \in disc}

SourceIds == {"pubmed", "blog", "legacy", "newfeed", ""}

InitRegistry ==
    /\ rg_today \in Dates
    /\ \E srcs \in StartSources :
          /\ \A i \in DOMAIN srcs : LastHit(srcs[i]) <= rg_today
          /\ rg_registry = [max_sources |-> MaxSourcesCap, last_pruned |-> Absent,
                            sources |-> srcs]
          /\ rg_start = srcs
    /\ rg_op = "none" /\ rg_arg = "" /\ rg_ret = <<>> /\ rg_steps = 0
    /\ rg_counts = <<>>
    /\ ScoreIdle /\ HashIdle /\ FilterIdle /\ DedupIdle /\ PipeIdle

RegUnchanged == UNCHANGED <<rg_today, rg_start, scoreVars, hashVars, filterVars, dedupVars, pipeVars>>

RG_UpdateSourceStats ==
    /\ rg_steps < MaxOps
    /\ \E source_id \in SourceIds \ {""}, fetched \in 0..1 :
         \E in_scope \in 0..fetched :
          \E high_score \in 0..in_scope :
          /\ rg_registry' = update_source_stats(rg_registry, source_id, fetched,
                                                in_scope, high_score, rg_today)
          /\ rg_arg' = source_id
          /\ rg_counts' = <<fetched, in_scope, high_score>>
    /\ rg_op' = "update_source_stats" /\ rg_ret' = <<>>
    /\ rg_steps' = rg_steps + 1
    /\ RegUnchanged

RG_PruneColdSources ==
    /\ rg_steps < MaxOps
    /\ LET r == prune_cold_sources(rg_registry, COLD_DAYS, rg_today)
       IN  rg_registry' = r.registry /\ rg_ret' = <<r.ret>>
    /\ rg_op' = "prune_cold_sources" /\ rg_arg' = "" /\ rg_counts' = <<>>
    /\ rg_steps' = rg_steps + 1
    /\ RegUnchanged

RG_AddDiscoveredSource ==
    /\ rg_steps < MaxOps
    /\ \E source_id \in {"blog", "newfeed"} :
          LET r == add_discovered_source(rg_registry, source_id, rg_today)
          IN  rg_registry' = r.registry /\ rg_ret' = <<r.ret>> /\ rg_arg' = source_id
    /\ rg_counts' = <<>>
    /\ rg_op' = "add_discovered_source"
    /\ rg_steps' = rg_steps + 1
    /\ RegUnchanged

RG_FlagColdSource ==
    /\ rg_steps < MaxOps
    /\ \E source_id \in SourceIds :
          LET r == tool_flag_cold_source(rg_registry, source_id)
          IN  rg_registry' = r.registry /\ rg_ret' = <<r.ret>> /\ rg_arg' = source_id
    /\ rg_counts' = <<>>
    /\ rg_op' = "flag_cold_source"
    /\ rg_steps' = rg_steps + 1
    /\ RegUnchanged

\* dt.date.today() moves on between operations
RG_NextDay ==
    /\ \E d \in Dates : d > rg_today /\ rg_today' = d
    /\ rg_op' = "none" /\ rg_arg' = "" /\ rg_ret' = <<>> /\ rg_counts' = <<>>
    /\ UNCHANGED <<rg_registry, rg_steps, rg_start, scoreVars, hashVars, filterVars,
                   dedupVars, pipeVars>>

NextRegistry ==
    \/ RG_UpdateSourceStats \/ RG_PruneColdSources \/ RG_AddDiscoveredSource
    \/ RG_FlagColdSource \/ RG_NextDay

SpecRegistry == InitRegistry /\ [][NextRegistry]_vars

(***************************************************************************)
(* Claims about the source registry (SpecRegistry).                        *)
(***************************************************************************)
\* the source is marked curated / is not disabled
MarkedCurated(s) == s.curated = <<TRUE>>
Enabled(s) == s.enabled # <<FALSE>>

\* no in-scope hit in the last 30 days: never, or 31 or more days ago
Silent(s, today) ==
    \/ s.stats = <<>>
    \/ s.stats[1].last_hit_date = Absent
    \/ today - s.stats[1].last_hit_date >= 31

\* C19: one prune_cold_sources call disables exactly the enabled sources not
\* marked curated that had no in-scope hit in the last 30 days, changes
\* nothing else of any source (a curated one in the same state stays
\* enabled), deletes no entry, and returns how many sources it disabled, so
\* that a second call right after the first returns 0
C19_PruneColdSources ==
    [][rg_op' = "prune_cold_sources" =>
        LET before == rg_registry.sources
            after  == rg_registry'.sources
        IN  /\ DOMAIN after = DOMAIN before
            /\ \A i \in DOMAIN before :
                  IF ~MarkedCurated(before[i]) /\ Enabled(before[i])
                     /\ Silent(before[i], rg_today)
                  THEN after[i] = [before[i] EXCEPT !.enabled = <<FALSE>>]
                  ELSE after[i] = before[i]
            /\ rg_ret' = <<Cardinality({i \in DOMAIN before :
                                          Enabled(before[i]) /\ ~Enabled(after[i])})>>
            /\ rg_op = "prune_cold_sources" => rg_ret' = <<0>>]_vars

\* on day 32 the second of two calls returned 0; the first had disabled the
\* discovered source last hit on day 1 and left the curated source, last hit
\* on day 1 too, enabled
C19_Witness ==
    /\ rg_op = "prune_cold_sources" /\ rg_steps = 2 /\ rg_ret = <<0>>
    /\ rg_today = 32
    /\ rg_registry.last_pruned = 32
    /\ LastHit(rg_registry.sources[1]) = 1 /\ MarkedCurated(rg_registry.sources[1])
    /\ Enabled(rg_registry.sources[1])
    /\ LastHit(rg_registry.sources[2]) = 1 /\ ~Enabled(rg_registry.sources[2])
    /\ Enabled(rg_start[2])

\* C20: after any sequence of update_source_stats, prune_cold_sources,
\* add_discovered_source and flag_cold_source calls, every source that was
\* curated and enabled at the start is still in the registry, curated and
\* enabled, and every source that has been disabled is a non-curated one
C20_CuratedSourcesStay ==
    rg_op # "idle" =>
        /\ \A i \in DOMAIN rg_start :
              (MarkedCurated(rg_start[i]) /\ Enabled(rg_start[i])) =>
                  /\ i \in DOMAIN rg_registry.sources
                  /\ rg_registry.sources[i].id = rg_start[i].id
                  /\ MarkedCurated(rg_registry.sources[i])
                  /\ Enabled(rg_registry.sources[i])
        /\ \A i \in DOMAIN rg_registry.sources :
              (/\ ~Enabled(rg_registry.sources[i])
               /\ i \in DOMAIN rg_start => Enabled(rg_start[i]))
              => ~MarkedCurated(rg_registry.sources[i])

\* on day 32 the curated source, last hit on day 1, has been flagged and is
\* still enabled, after a prune that disabled the discovered source
C20_Witness ==
    /\ rg_op = "flag_cold_source" /\ rg_arg = "pubmed" /\ rg_steps = 2
    /\ rg_today = 32 /\ rg_registry.last_pruned = 32
    /\ LastHit(rg_registry.sources[1]) = 1
    /\ MarkedCurated(rg_registry.sources[1]) /\ Enabled(rg_registry.sources[1])
    /\ ~Enabled(rg_registry.sources[2]) /\ Enabled(rg_start[2])

\* tool_check_source_health: the list an enabled source is put on
\* (ratio > 0.3 is in_scope / fetched > 0.3)
check_source_health(s, today) ==
    LET stats     == Get(s.stats, _empty_stats)
        fetched   == stats.total_fetched
        in_scope  == stats.in_scope_count
        last_hit  == stats.last_hit_date
        cutoff_30 == today - COLD_DAYS
    IN  IF fetched = 0 /\ stats.runs > 0 THEN "no_data"
        ELSE IF last_hit # Absent /\ last_hit < cutoff_30 THEN "cold"
        ELSE IF in_scope > 0 /\ fetched > 0
        THEN IF 10 * in_scope > 3 * fetched THEN "high_yield" ELSE "healthy"
        ELSE "healthy"

\* the number of sources of a list that are not disabled
NumEnabled(sources) == Cardinality({i \in DOMAIN sources : Enabled(sources[i])})

\* C21: the number of enabled sources never exceeds max_sources; an
\* add_discovered_source call for an id already present returns False and
\* changes nothing; below the cap it appends the source, enabled and not
\* curated, and returns True; at the cap it does so only if a prune pass
\* disables a source, and otherwise returns False and adds nothing
C21_EnabledSourcesCapped ==
    [][/\ NumEnabled(rg_registry'.sources) <= rg_registry'.max_sources
       /\ rg_op' = "add_discovered_source" =>
            LET before == rg_registry.sources
                after  == rg_registry'.sources
                n      == Len(before)
                appended ==
                    /\ rg_ret' = <<TRUE>>
                    /\ Len(after) = n + 1
                    /\ after[n + 1].id = rg_arg'
                    /\ Enabled(after[n + 1]) /\ ~MarkedCurated(after[n + 1])
            IN  IF \E i \in DOMAIN before : before[i].id = rg_arg'
                THEN rg_ret' = <<FALSE>> /\ rg_registry' = rg_registry
                ELSE IF NumEnabled(before) < rg_registry.max_sources
                THEN appended /\ SubSeq(after, 1, n) = before
                ELSE IF \E i \in DOMAIN before :
                           /\ ~MarkedCurated(before[i]) /\ Enabled(before[i])
                           /\ Silent(before[i], rg_today)
                THEN appended /\ NumEnabled(SubSeq(after, 1, n)) < NumEnabled(before)
                ELSE rg_ret' = <<FALSE>> /\ rg_registry' = rg_registry]_vars

\* an add at the cap of three enabled sources succeeded after its prune pass
\* disabled the discovered source
C21_Witness ==
    /\ rg_op = "add_discovered_source" /\ rg_arg = "newfeed" /\ rg_ret = <<TRUE>>
    /\ rg_steps = 1
    /\ NumEnabled(rg_start) = rg_registry.max_sources
    /\ Len(rg_registry.sources) = Len(rg_start) + 1
    /\ NumEnabled(rg_registry.sources) < rg_registry.max_sources
    /\ ~Enabled(rg_registry.sources[2]) /\ Enabled(rg_registry.sources[1])

\* the stats of a source, those of a source without a stats key being empty
StatsOf(s) == IF s.stats = <<>> THEN _empty_stats ELSE s.stats[1]

\* C22: update_source_stats changes nothing but the stats of the source with
\* the given id: its runs grow by 1, its three cumulative counters by the
\* given amounts, last_run_date becomes today, last_hit_date becomes today
\* when in_scope > 0 and is otherwise unchanged; every other source, and the
\* rest of the registry, is unchanged
C22_UpdateSourceStats ==
    [][rg_op' = "update_source_stats" =>
        LET before == rg_registry.sources
            after  == rg_registry'.sources
        IN  /\ Len(after) = Len(before)
            /\ rg_registry'.max_sources = rg_registry.max_sources
            /\ rg_registry'.last_pruned = rg_registry.last_pruned
            /\ \A i \in DOMAIN before :
                 IF before[i].id # rg_arg' THEN after[i] = before[i]
                 ELSE /\ after[i].id = before[i].id
                      /\ after[i].curated = before[i].curated
                      /\ after[i].enabled = before[i].enabled
                      /\ after[i].discovered_date = before[i].discovered_date
                      /\ after[i].stats # <<>>
                      /\ StatsOf(after[i]).runs = StatsOf(before[i]).runs + 1
                      /\ StatsOf(after[i]).total_fetched =
                            StatsOf(before[i]).total_fetched + rg_counts'[1]
                      /\ StatsOf(after[i]).in_scope_count =
                            StatsOf(before[i]).in_scope_count + rg_counts'[2]
                      /\ StatsOf(after[i]).high_score_count =
                            StatsOf(before[i]).high_score_count + rg_counts'[3]
                      /\ StatsOf(after[i]).last_run_date = rg_today
                      /\ StatsOf(after[i]).last_hit_date =
                            IF rg_counts'[2] > 0 THEN rg_today
                            ELSE StatsOf(before[i]).last_hit_date]_vars

\* a source last hit on day 1 was updated on a later day by a run that fetched
\* an item but found none in scope, and keeps its last hit date
C22_Witness ==
    /\ rg_op = "update_source_stats" /\ rg_arg = "blog" /\ rg_counts = <<1, 0, 0>>
    /\ rg_steps = 1 /\ rg_today > 1
    /\ LastHit(rg_start[2]) = 1
    /\ StatsOf(rg_registry.sources[2]).last_hit_date = 1
    /\ StatsOf(rg_registry.sources[2]).last_run_date = rg_today
    /\ StatsOf(rg_registry.sources[2]).total_fetched =
          StatsOf(rg_start[2]).total_fetched + 1
    /\ rg_registry.sources[1] = rg_start[1]

\* the classification as stated: cold, else no data, else high yield, else healthy
StatedHealth(s, today) ==
    IF Silent(s, today) THEN "cold"
    ELSE IF StatsOf(s).runs >= 1 /\ StatsOf(s).total_fetched = 0 THEN "no_data"
    ELSE IF 10 * StatsOf(s).in_scope_count > 3 * StatsOf(s).total_fetched
    THEN "high_yield" ELSE "healthy"

\* C23: an enabled source is classified cold when it had no in-scope hit in
\* the trailing 30 days (a source that never had a hit included), no data
\* when it ran but fetched nothing, high yield when in_scope / fetched > 0.3,
\* healthy otherwise; and the sources classified cold are exactly the ones
\* the prune pass treats as cold
C23_HealthClassification ==
    rg_op # "idle" =>
        \A i \in DOMAIN rg_registry.sources :
            LET s == rg_registry.sources[i]
            IN  Enabled(s) =>
                  /\ check_source_health(s, rg_today) = StatedHealth(s, rg_today)
                  /\ (check_source_health(s, rg_today) = "cold")
                        <=> IsCold(s, rg_today - COLD_DAYS)

\* C30: a source added by add_discovered_source is not disabled by a prune
\* pass, explicit or run by a later add at the cap, during the 30 days after
\* the day it was added, even when it has had no in-scope hit yet
C30_NoPruneInsideWindow ==
    [][rg_op' \in {"prune_cold_sources", "add_discovered_source"} =>
        \A i \in DOMAIN rg_registry.sources :
            LET s == rg_registry.sources[i]
            IN  (/\ s.discovered_date # Absent /\ Enabled(s)
                 /\ rg_today - s.discovered_date <= COLD_DAYS)
                => Enabled(rg_registry'.sources[i])]_vars

(***************************************************************************)
(* Claims about the review stage and the scored list (SpecRun).            *)
(***************************************************************************)
\* one adjustment as stated: the first item whose title holds the fragment,
\* whatever the case, and that no earlier adjustment has changed
StatedAdjustment(scored, adj) ==
    IF adj.title_snippet = <<>> \/ adj.adjusted_score = Absent THEN scored
    ELSE LET hits == {i \in DOMAIN scored :
                         /\ Contains(lower(scored[i].title), lower(adj.title_snippet))
                         /\ ~scored[i].adjusted_by_reviewer}
         IN  IF hits = {} THEN scored
             ELSE LET i == CHOOSE j \in hits : \A k \in hits : j <= k
                  IN  [scored EXCEPT ![i].llm_score_original = scored[i].llm_score,
                                     ![i].llm_score = adj.adjusted_score,
                                     ![i].adjusted_by_reviewer = TRUE,
                                     ![i].adjustment_reason = adj.reason]

RECURSIVE StatedAdjustments(_, _)
StatedAdjustments(scored, adjustments) ==
    IF adjustments = <<>> THEN scored
    ELSE StatedAdjustments(StatedAdjustment(scored, Head(adjustments)),
                           Tail(adjustments))

\* C24: in the review stage each adjustment with a non-empty fragment changes
\* at most one item, the first item in the list's order whose title contains
\* the fragment case-insensitively and that has not been adjusted already;
\* the item gets the new score, its previous score as the original, the
\* reason and the adjusted marker, and every other item is unchanged (the
\* items are compared up to the final ordering of the list)
C24_AdjustmentChangesFirstUnadjusted ==
    [][(pc = "review" /\ review_result' # "SKIPPED") =>
          \E adjustments \in AdjustmentLists :
             \E k \in 0..Len(Processed(adjustments)) :
                sort_desc(scored_items', "llm_score") =
                   sort_desc(StatedAdjustments(scored_items,
                                SubSeq(Processed(adjustments), 1, k)), "llm_score")]_vars

\* C25: after a review pass the preserved original score of every adjusted
\* item is the score the item had when the stage began (an item written
\* twice keeps the first adjusted score as its original)
C25_OriginalScorePreserved ==
    [][pc = "review" =>
          \A i \in DOMAIN scored_items' :
             scored_items'[i].adjusted_by_reviewer =>
                \E j \in DOMAIN scored_items :
                   /\ SameRecord(scored_items[j], scored_items'[i])
                   /\ ~scored_items[j].adjusted_by_reviewer
                   /\ scored_items[j].llm_score = scored_items'[i].llm_score_original]_vars

\* C26: once score_items has returned, and again once review has returned,
\* the scored list is in non-increasing order of the current score
C26_ScoredListIsSorted ==
    pc \in AfterScoring =>
        \A i, j \in DOMAIN scored_items :
            i < j => scored_items[i].llm_score >= scored_items[j].llm_score

\* C27: the score of every item of the scored list is an integer in 1..10 at
\* all times, and so is the score stored in the dedup history
C27_ScoresInRange ==
    /\ \A i \in DOMAIN scored_items : scored_items[i].llm_score \in 1..10
    /\ \A h \in DOMAIN seen_items : seen_items[h].score \in 1..10

\* the hashes the history holds with a score below 7
LowEntries == {h \in DOMAIN seen_items : seen_items[h].score < 7}

\* no item of the list has the hash
NoneWithHash(items, h) ==
    \A i \in DOMAIN items : _item_hash(items[i].title, items[i].url) # h

\* C29: a history entry whose stored score is below 7 is never changed by a
\* later step: its score, category, last_seen and run_count stay as they are;
\* and in every run that starts with such an entry each in-scope record with
\* that hash is skipped by the prefilter and none is in to_score, sent to the
\* scorer or in the scored list
C29_LowScoreIsAbsorbing ==
    [][\A h \in LowEntries :
          /\ h \in DOMAIN seen_items' /\ seen_items'[h] = seen_items[h]
          /\ pc # "meta_reflect" =>
                /\ NoneWithHash(prefiltered_items', h)
                /\ NoneWithHash(llm_calls', h)
                /\ NoneWithHash(scored_items', h)
          /\ pc = "prefilter" =>
                \A i \in DOMAIN raw_items' :
                    (/\ is_in_scope(raw_items'[i].title, raw_items'[i].summary,
                                    raw_items'[i].source)
                     /\ _item_hash(raw_items'[i].title, raw_items'[i].url) = h)
                    => raw_items'[i]._skipped_reason # <<>>]_vars

\* a run that began with the trial report stored with score 5 fetched it
\* again from PubMed, skipped it, scored and reviewed another paper, and
\* ended with the entry as it was
C29_Witness ==
    /\ pc = "END" /\ review_result = "reviewed" /\ Len(scored_items) = 1
    /\ LowEntries = {_item_hash(PubmedRecord.title, PubmedRecord.url)}
    /\ \A h \in LowEntries :
          /\ seen_items[h].score = 5 /\ seen_items[h].last_seen = 0
          /\ seen_items[h].run_count = 1
    /\ \E i \in DOMAIN raw_items :
          /\ raw_items[i].source_id = "pubmed" /\ raw_items[i]._skipped_reason # <<>>
    /\ Cardinality(DOMAIN seen_items) = 2

(***************************************************************************)
(* Claims about the source stats of a run (SpecRun).                       *)
(***************************************************************************)
\* the name a fetch node prints for a source in its "[warn]" line
WarnName(source_id) ==
    CASE source_id = "pubmed" -> "PubMed"
      [] source_id = "tavily_wideband" -> "Tavily"
      [] OTHER -> source_id

\* the items of the scored list that came from the source and scored 9 or more
HighScored(source_id) ==
    {j \in DOMAIN scored_items :
        scored_items[j].source_id = source_id /\ scored_items[j].llm_score >= 9}

\* C28: once the fetch nodes of a run are done, every registry source whose
\* fetch did not fail has runs one higher than at the start of the run and
\* last_run_date = today, also when it returned no items; and at the end of
\* the run the high_score_count of every source has grown by the number of
\* its items that scored high
C28_StatsUpdatedOncePerRun ==
    pc \in {"save_registry", "prefilter"} \cup AfterScoring \cup {"score_items"} =>
        \A i \in DOMAIN _registry.sources :
            LET s == _registry.sources[i]
                start == StatsOf(DefaultRegistry.sources[i])
            IN  /\ (\A k \in DOMAIN warned : warned[k] # WarnName(s.id)) =>
                      /\ StatsOf(s).runs = start.runs + 1
                      /\ StatsOf(s).last_run_date = clock_today
                /\ pc \in {"END", "raised"} =>
                      StatsOf(s).high_score_count =
                          start.high_score_count + Cardinality(HighScored(s.id))

====
